---- MODULE Spec2Model ----
(***************************************************************************)
(* Model of the gcp-cf cloud functions: ExportFiles over SFTP (two         *)
(* revisions), ExportFiles over SMB (NAS), RenameFile (trimPrefix) and     *)
(* ProcessFile (setDestFileName / replaceQuotes / saveObject).             *)
(*                                                                         *)
(* Strings and byte slices are sequences of one-character strings; a       *)
(* secret payload is a sequence of byte values.                            *)
(***************************************************************************)
EXTENDS Integers, Sequences, FiniteSets, TLC

VARIABLES
    arg,        \* input of the pure function under check (SpecNaming, SpecBytes, SpecSecret)
    ret,        \* its result: <<>> before the call, <<value>> after
    fn,         \* which function is deployed
    boot,       \* the process's init(): the step it is at, whether the process is
                \* still in init, serving events or has exited, the secret
                \* manager's response it accepted, the step that failed
    bucket,     \* the storage bucket: object name -> content
    events,     \* object names for which a change notification exists
    remote,     \* files on the remote side (SFTP server or SMB share): path -> content
    rdirs,      \* directories on the remote side
    pc,         \* per invocation: where the handler is
    objectName, \* per invocation: metadata.GetName()
    dstName,    \* per invocation: the destination name
    data,       \* per invocation: the bytes read from the source
    extIdx,     \* per invocation: index of processFile's loop over extensions
    offset,     \* per invocation: io.Copy's position in the remote file
    held,       \* per invocation: transport resources currently open
    result,     \* per invocation: what the handler gave back to the invoking layer
    ops,        \* per invocation: the calls made so far, with their outcomes
    after,      \* per invocation: the invocations that had ended when it started
    faults,     \* injected transport failures so far
    uploads     \* what the outside world put into the bucket so far: how many
                \* objects (n) and under which names

fvars == <<arg, ret>>
pvars == <<fn, boot, bucket, events, remote, rdirs, pc, objectName, dstName, data,
           extIdx, offset, held, result, ops, after, faults, uploads>>
vars == <<arg, ret, fn, boot, bucket, events, remote, rdirs, pc, objectName, dstName,
          data, extIdx, offset, held, result, ops, after, faults, uploads>>

None == "none"

(***************************************************************************)
(* Bounds                                                                  *)
(***************************************************************************)
\* invocations of the handler
NInv == 2
\* injected transport failures in one behaviour
MaxFaults == 1
\* objects put into the bucket by the outside world in one behaviour
MaxUploads == 2
\* tokens in an object name given to setDestFileName
MaxTokens == 5
\* bytes in a payload given to replaceQuotes
MaxPayload == 6
\* bytes in a secret payload
MaxSecret == 2

(***************************************************************************)
(* strings / bytes                                                         *)
(***************************************************************************)
HasPrefix(s, p) == Len(s) >= Len(p) /\ SubSeq(s, 1, Len(p)) = p

HasSuffix(s, p) == Len(s) >= Len(p) /\ SubSeq(s, Len(s) - Len(p) + 1, Len(s)) = p

\* 1-based position of the first occurrence of sub in s, 0 when there is none
Index(s, sub) ==
    LET hits == {i \in 1..(Len(s) - Len(sub) + 1) : SubSeq(s, i, i + Len(sub) - 1) = sub}
    IN  IF hits = {} THEN 0 ELSE CHOOSE i \in hits : \A j \in hits : i <= j

\* 1-based position of the last occurrence of the one-character string c in s, 0 when none
LastIndexByte(s, c) ==
    LET hits == {i \in 1..Len(s) : s[i] = c}
    IN  IF hits = {} THEN 0 ELSE CHOOSE i \in hits : \A j \in hits : i >= j

Contains(s, sub) == Index(s, sub) # 0

RECURSIVE TrimPrefixRepeated(_, _)
TrimPrefixRepeated(s, p) ==
    IF p # <<>> /\ HasPrefix(s, p)
    THEN TrimPrefixRepeated(SubSeq(s, Len(p) + 1, Len(s)), p)
    ELSE s

TrimPrefix(s, p) == IF HasPrefix(s, p) THEN SubSeq(s, Len(p) + 1, Len(s)) ELSE s

\* the first result of strings.Cut
CutBefore(s, sep) ==
    LET i == Index(s, sep) IN IF i = 0 THEN s ELSE SubSeq(s, 1, i - 1)

\* strings.Replace(s, old, new, 1)
Replace1(s, old, new) ==
    LET i == Index(s, old)
    IN  IF i = 0 THEN s
        ELSE SubSeq(s, 1, i - 1) \o new \o SubSeq(s, i + Len(old), Len(s))

\* regexp.MustCompile(`.*\/`).ReplaceAllString(s, ""): the greedy match runs to
\* the last '/', and what is left holds no '/' (object names hold no line breaks)
StripDirs(s) == SubSeq(s, LastIndexByte(s, "/") + 1, Len(s))

\* what a reader made by ios.NewBytesReplacingReader(r, search, replace) yields
\* for the stream s: every occurrence, found left to right, replaced
RECURSIVE BytesReplacingReader(_, _, _)
BytesReplacingReader(s, search, replace) ==
    LET i == Index(s, search)
    IN  IF i = 0 THEN s
        ELSE SubSeq(s, 1, i - 1) \o replace
             \o BytesReplacingReader(SubSeq(s, i + Len(search), Len(s)), search, replace)

RECURSIVE Flatten(_)
Flatten(ss) == IF ss = <<>> THEN <<>> ELSE Head(ss) \o Flatten(Tail(ss))

(***************************************************************************)
(* ProcessFile: names and content                                          *)
(***************************************************************************)
Csv == <<".", "c", "s", "v">>
Txt == <<".", "t", "x", "t">>
extensions == <<Csv, Txt>>

Pipe == <<"|">>

EligibleEither(name, ext) == HasSuffix(name, ext) \/ Contains(name, Pipe)

\* the condition of processFile's loop body
Eligible(name, ext) == HasSuffix(name, ext) /\ Contains(name, Pipe)

setDestFileName(srcObjectName, extension) ==
    LET fileName == StripDirs(srcObjectName)
        cut      == CutBefore(fileName, Pipe)
        dst      == IF ~HasSuffix(cut, extension) THEN cut \o extension ELSE cut
    IN  Replace1(srcObjectName, fileName, dst)

Quote == "\""
Tildes == <<"~", "~">>
Comma == <<",">>
QQCQQ == <<Quote, Quote, ",", Quote, Quote>>
QCQ == <<Quote, ",", Quote>>

replaceQuotesSwapped(content) ==
    BytesReplacingReader(BytesReplacingReader(content, QQCQQ, QCQ), Tildes, Comma)

\* what replaceQuotes returns for an object whose content is read in full
replaceQuotes(content) ==
    BytesReplacingReader(BytesReplacingReader(content, Tildes, Comma), QQCQQ, QCQ)

(***************************************************************************)
(* accessSecretVersion                                                     *)
(* A uint32 is a pair <<high 16 bits, low 16 bits>>; an int64 is a triple  *)
(* <<high 32 bits as a signed number, bits 31..16, bits 15..0>>.           *)
(***************************************************************************)
RECURSIVE XorBits(_, _, _)
XorBits(a, b, n) ==
    IF n = 0 THEN 0
    ELSE (((a % 2) + (b % 2)) % 2) + 2 * XorBits(a \div 2, b \div 2, n - 1)

Xor32(a, b) == <<XorBits(a[1], b[1], 16), XorBits(a[2], b[2], 16)>>

Shr1(a) == <<a[1] \div 2, (a[2] \div 2) + (a[1] % 2) * 32768>>

\* crc32.Castagnoli, 0x82f63b78
Castagnoli == <<33526, 15224>>

Ones32 == <<65535, 65535>>

RECURSIVE crcBits(_, _)
crcBits(crc, k) ==
    IF k = 0 THEN crc
    ELSE crcBits(IF crc[2] % 2 = 1 THEN Xor32(Shr1(crc), Castagnoli) ELSE Shr1(crc),
                 k - 1)

RECURSIVE crcUpdate(_, _)
crcUpdate(crc, bytes) ==
    IF bytes = <<>> THEN crc
    ELSE crcUpdate(crcBits(Xor32(crc, <<0, Head(bytes)>>), 8), Tail(bytes))

\* crc32.Checksum(bytes, crc32.MakeTable(crc32.Castagnoli))
Checksum(bytes) == Xor32(crcUpdate(Ones32, bytes), Ones32)

\* int64(uint32)
Int64(u) == <<0, u[1], u[2]>>

\* a *int64 that points nowhere
NilCrc == <<>>

\* resp is what the secret manager gives: status "NewClientErr", "AccessErr" or
\* "ok", and for "ok" the payload's Data and DataCrc32C (a *int64, NilCrc when the
\* field is not set, and dereferencing it panics)
accessSecretVersionLow32(resp) ==
    IF resp.status = "NewClientErr"
    THEN [secret |-> <<>>, err |-> "failed to create secretmanager client"]
    ELSE IF resp.status = "AccessErr"
    THEN [secret |-> <<>>, err |-> "failed to access secret version"]
    ELSE IF resp.crc = NilCrc THEN [secret |-> <<>>, err |-> "panic"]
    ELSE IF Checksum(resp.data) # <<resp.crc[2], resp.crc[3]>>
    THEN [secret |-> <<>>, err |-> "data corruption detected"]
    ELSE [secret |-> resp.data, err |-> "nil"]

accessSecretVersion(resp) ==
    IF resp.status = "NewClientErr"
    THEN [secret |-> <<>>, err |-> "failed to create secretmanager client"]
    ELSE IF resp.status = "AccessErr"
    THEN [secret |-> <<>>, err |-> "failed to access secret version"]
    ELSE IF resp.crc = NilCrc THEN [secret |-> <<>>, err |-> "panic"]
    ELSE IF Int64(Checksum(resp.data)) # resp.crc
    THEN [secret |-> <<>>, err |-> "data corruption detected"]
    ELSE [secret |-> resp.data, err |-> "nil"]

(***************************************************************************)
(* The pure functions on their own: an input is drawn, the function is     *)
(* applied to it once.                                                     *)
(***************************************************************************)
SeqsUpTo(S, n) == UNION {[1..k -> S] : k \in 0..n}

PIdle ==
    /\ fn = None
    /\ boot = <<>>
    /\ bucket = <<>>
    /\ events = {}
    /\ remote = <<>>
    /\ rdirs = {}
    /\ pc = <<>>
    /\ objectName = <<>>
    /\ dstName = <<>>
    /\ data = <<>>
    /\ extIdx = <<>>
    /\ offset = <<>>
    /\ held = <<>>
    /\ result = <<>>
    /\ ops = <<>>
    /\ after = <<>>
    /\ faults = 0
    /\ uploads = [n |-> 0, names |-> {}]

NameTokens == {<<"a">>, Pipe, <<"/">>, Csv, Txt}

TokenNames == {Flatten(ts) : ts \in SeqsUpTo(NameTokens, MaxTokens) \ {<<>>}}

\* the calls processFile makes: setDestFileName(objectName, ext) for an eligible name
NamingInputs ==
    {[name |-> n, ext |-> extensions[k]] : n \in TokenNames, k \in 1..2}

InitNaming ==
    /\ arg \in {a \in NamingInputs : Eligible(a.name, a.ext)}
    /\ ret = <<>>
    /\ PIdle

CallSetDestFileName ==
    /\ ret = <<>>
    /\ ret' = <<setDestFileName(arg.name, arg.ext)>>
    /\ UNCHANGED <<arg, pvars>>

NextNaming == CallSetDestFileName

SpecNaming == InitNaming /\ [][NextNaming]_vars

PayloadBytes == {"~", Quote, ",", "a"}

InitBytes ==
    /\ arg \in SeqsUpTo(PayloadBytes, MaxPayload)
    /\ ret = <<>>
    /\ PIdle

CallReplaceQuotes ==
    /\ ret = <<>>
    /\ ret' = <<replaceQuotes(arg)>>
    /\ UNCHANGED <<arg, pvars>>

NextBytes == CallReplaceQuotes

SpecBytes == InitBytes /\ [][NextBytes]_vars

SecretBytes == {0, 115, 255}

SecretData == SeqsUpTo(SecretBytes, MaxSecret)

\* the checksums a response may carry: the right one of some payload, the same
\* with bits above the 32nd set, zero, or none at all
SecretCrcs ==
    {Int64(Checksum(d)) : d \in SecretData}
    \cup {<<h, Checksum(d)[1], Checksum(d)[2]>> : h \in {-1, 1}, d \in SecretData}
    \cup {NilCrc}

SecretResponses ==
    {[status |-> "ok", data |-> d, crc |-> c] : d \in SecretData, c \in SecretCrcs}
    \cup {[status |-> s, data |-> <<>>, crc |-> NilCrc] : s \in {"NewClientErr", "AccessErr"}}

InitSecret ==
    /\ arg \in SecretResponses
    /\ ret = <<>>
    /\ PIdle

CallAccessSecretVersion ==
    /\ ret = <<>>
    /\ ret' = <<accessSecretVersion(arg)>>
    /\ UNCHANGED <<arg, pvars>>

NextSecret == CallAccessSecretVersion

SpecSecret == InitSecret /\ [][NextSecret]_vars

(***************************************************************************)
(* The deployed function: events, the bucket, the remote side              *)
(***************************************************************************)
Inv == 1..NInv

Functions == {"ExportSFTP", "ExportSFTPPlain", "ExportNAS", "RenameFile", "ProcessFile"}

SameStore == {"RenameFile", "ProcessFile"}

\* the literal of trimPrefix
Prefix0000 == <<"0", "0", "0", "0">>

SFTP_FOLDER == <<"f", "o", "l", "d", "e", "r">>

Dot == <<".">>

Slash == <<"/">>

\* the objects the outside world puts into the bucket
SourceNames(f) ==
    IF f = "RenameFile"
    THEN {Prefix0000 \o Prefix0000 \o <<"a">>, Prefix0000 \o <<"a">>, <<"a">>}
    ELSE IF f = "ProcessFile"
    THEN {<<"a", "|", "1">> \o Csv, <<"a">> \o Csv, <<"d", "|", "/", "b">> \o Txt,
          <<"a", "|", "1", ".", "d", "a", "t">>}
    ELSE {<<"a">>, <<"d", "/", "a">>}

\* and their content. For the exports one element is one chunk of io.Copy, and
\* a name can be uploaded with either payload; in the same-store functions an
\* object's payload is marked with its name, which tells a copy of one object
\* from a copy of another, and for processFile it carries the characters
\* replaceQuotes looks for
Contents(f, n) ==
    IF f = "ProcessFile"
    THEN {<<Quote, Quote, "~", "~", Quote, Quote>> \o SubSeq(n, 1, 1)}
    ELSE IF f = "RenameFile"
    THEN {n}
    ELSE {<<"x", "y">>, <<"u", "v">>}

\* the directories the remote side starts with
InitialDirs(f) ==
    IF f = "ExportNAS" THEN {{Dot}, {Dot, <<"d">>}}
    ELSE IF f \in {"ExportSFTP", "ExportSFTPPlain"}
    THEN {{SFTP_FOLDER}, {SFTP_FOLDER, SFTP_FOLDER \o Slash \o <<"d">>}}
    ELSE {{}}

Put(f, k, v) == [x \in (DOMAIN f) \cup {k} |-> IF x = k THEN v ELSE f[x]]

Drop(f, k) == [x \in (DOMAIN f) \ {k} |-> f[x]]

\* path.Dir of a clean relative path
PathDir(p) ==
    LET i == LastIndexByte(p, "/")
    IN  IF i = 0 THEN Dot ELSE IF i = 1 THEN Slash ELSE SubSeq(p, 1, i - 1)

\* the directory an SFTP server must already have to open p (none is created)
ParentDir(p) == SubSeq(p, 1, LastIndexByte(p, "/") - 1)

\* MkdirAll(dir): dir and every missing ancestor
DirAndAncestors(dir) ==
    {dir} \cup {SubSeq(dir, 1, i - 1) : i \in {k \in 2..Len(dir) : dir[k] = "/"}}

\* a write of one chunk at position off (0-based) of a file; a gap left by a
\* truncation reads as zero bytes
WriteAt(file, off, chunk) ==
    [k \in 1..(IF Len(file) > off + 1 THEN Len(file) ELSE off + 1) |->
        IF k = off + 1 THEN chunk
        ELSE IF k <= Len(file) THEN file[k] ELSE "\\0"]

Op(op, name, err, val) == [op |-> op, name |-> name, err |-> err, val |-> val]

Log(i, op, name, err, val) ==
    ops' = [ops EXCEPT ![i] = Append(@, Op(op, name, err, val))]

\* the handler returns r (or, for "panic", does not return)
Return(i, r) ==
    /\ pc' = [pc EXCEPT ![i] = "done"]
    /\ result' = [result EXCEPT ![i] = r]

Goto(i, l) ==
    /\ pc' = [pc EXCEPT ![i] = l]
    /\ UNCHANGED result

CanFail == faults < MaxFaults

Fault == faults' = faults + 1

Init ==
    /\ arg = <<>>
    /\ ret = <<>>
    /\ fn \in Functions
    /\ boot = [at |-> 1, state |-> "init", resp |-> <<>>, failed |-> None]
    /\ bucket = <<>>
    /\ events = {}
    /\ remote = <<>>
    /\ rdirs \in InitialDirs(fn)
    /\ pc = [i \in Inv |-> "idle"]
    /\ objectName = [i \in Inv |-> <<>>]
    /\ dstName = [i \in Inv |-> <<>>]
    /\ data = [i \in Inv |-> <<>>]
    /\ extIdx = [i \in Inv |-> 1]
    /\ offset = [i \in Inv |-> 0]
    /\ held = [i \in Inv |-> {}]
    /\ result = [i \in Inv |-> None]
    /\ ops = [i \in Inv |-> <<>>]
    /\ after = [i \in Inv |-> {}]
    /\ faults = 0
    /\ uploads = [n |-> 0, names |-> {}]

\* what each function's init() does before it registers the handler
InitSteps(f) ==
    IF f = "ExportSFTP"
    THEN <<"accessSecretVersion", "storage.NewClient", "ssh.Dial", "sftp.NewClient">>
    ELSE IF f = "ExportSFTPPlain"
    THEN <<"storage.NewClient", "ssh.Dial", "sftp.NewClient">>
    ELSE IF f = "ExportNAS"
    THEN <<"accessSecretVersion", "storage.NewClient">>
    ELSE IF f = "ProcessFile"
    THEN <<"storage.NewClient">>
    ELSE <<>>

\* what the secret manager may answer at start: the secret with its checksum,
\* with a checksum that is wrong in the low 32 bits or above them, with none,
\* or an error
InitResponses ==
    {[status |-> "ok", data |-> <<115>>, crc |-> c] :
        c \in {Int64(Checksum(<<115>>)), Int64(Checksum(<<>>)),
               <<1, Checksum(<<115>>)[1], Checksum(<<115>>)[2]>>, NilCrc}}
    \cup {[status |-> "AccessErr", data |-> <<>>, crc |-> NilCrc]}

\* one step of init(): the next call succeeds (for accessSecretVersion: returns
\* no error for the response resp), or it fails and log.Fatalf ends the
\* process; after the last call functions.CloudEvent registers the handler
init(resp, ok) ==
    /\ boot.state = "init"
    /\ IF boot.at > Len(InitSteps(fn))
       THEN boot' = [boot EXCEPT !.state = "serving"]
       ELSE LET step == InitSteps(fn)[boot.at] IN
            IF step = "accessSecretVersion"
            THEN IF accessSecretVersion(resp).err = "nil"
                 THEN boot' = [boot EXCEPT !.at = @ + 1, !.resp = <<resp>>]
                 ELSE boot' = [boot EXCEPT !.state = "exited", !.failed = step]
            ELSE IF ok
                 THEN boot' = [boot EXCEPT !.at = @ + 1]
                 ELSE boot' = [boot EXCEPT !.state = "exited", !.failed = step]
    /\ UNCHANGED <<arg, ret, fn, bucket, events, remote, rdirs, pc, objectName,
                   dstName, data, extIdx, offset, held, result, ops, after, faults,
                   uploads>>

\* the outside world finalizes an object, which raises a change notification
Upload(n, c) ==
    /\ uploads.n < MaxUploads
    /\ uploads' = [n |-> uploads.n + 1, names |-> uploads.names \cup {n}]
    /\ bucket' = Put(bucket, n, c)
    /\ events' = events \cup {n}
    /\ UNCHANGED <<arg, ret, fn, boot, remote, rdirs, pc, objectName, dstName, data,
                   extIdx, offset, held, result, ops, after, faults>>

\* the notification for object n is delivered (once more) to invocation i and
\* the handler unmarshals it
Unmarshal(i, n) ==
    /\ boot.state = "serving"
    /\ pc[i] = "idle"
    /\ \A j \in Inv : j < i => pc[j] # "idle"
    /\ n \in events
    /\ objectName' = [objectName EXCEPT ![i] = n]
    /\ after' = [after EXCEPT ![i] = {j \in Inv : pc[j] = "done"}]

\* protojson.Unmarshal fails on the event's data
RejectEvent(i) ==
    /\ boot.state = "serving"
    /\ pc[i] = "idle"
    /\ \A j \in Inv : j < i => pc[j] # "idle"
    /\ after' = [after EXCEPT ![i] = {j \in Inv : pc[j] = "done"}]
    /\ Return(i, "error")
    /\ UNCHANGED <<arg, ret, fn, boot, bucket, events, remote, rdirs, objectName, dstName,
                   data, extIdx, offset, held, ops, faults, uploads>>

(***************************************************************************)
(* ExportFiles (SFTP, both revisions, and NAS)                             *)
(***************************************************************************)
Exports == {"ExportSFTP", "ExportSFTPPlain", "ExportNAS"}

\* exportFiles up to its call of downloadFileIntoMemory
exportFiles(i, n) ==
    /\ fn \in Exports
    /\ Unmarshal(i, n)
    /\ Goto(i, "download")
    /\ UNCHANGED <<arg, ret, fn, boot, bucket, events, remote, rdirs, dstName, data,
                   extIdx, offset, held, ops, faults, uploads>>

\* exportFiles up to the return of downloadFileIntoMemory
Download(i) ==
    /\ fn \in Exports
    /\ pc[i] = "download"
    /\ IF objectName[i] \notin DOMAIN bucket
       THEN /\ Log(i, "read", objectName[i], "NotFound", <<>>)
            /\ Return(i, "error")
            /\ UNCHANGED <<data, faults>>
       ELSE \/ /\ CanFail
               /\ Fault
               /\ Log(i, "read", objectName[i], "Transport", <<>>)
               /\ Return(i, "error")
               /\ UNCHANGED data
            \/ /\ data' = [data EXCEPT ![i] = bucket[objectName[i]]]
               /\ Log(i, "read", objectName[i], "ok", bucket[objectName[i]])
               /\ Goto(i, IF fn = "ExportNAS" THEN "connect" ELSE "open")
               /\ UNCHANGED faults
    /\ UNCHANGED <<arg, ret, fn, boot, bucket, events, remote, rdirs, objectName, dstName,
                   extIdx, offset, held, after, uploads>>

\* what exportFiles returns when uploadFileToSFTP returned an error: the first
\* revision returns it, the second drops it and returns nil
SFTPUploadFailed(i) ==
    Return(i, IF fn = "ExportSFTP" THEN "error" ELSE "nil")

\* uploadFileToSFTP up to the return of sftpClient.OpenFile
SFTPOpenFile(i) ==
    LET dstFile == SFTP_FOLDER \o Slash \o objectName[i] IN
    /\ fn \in {"ExportSFTP", "ExportSFTPPlain"}
    /\ pc[i] = "open"
    /\ dstName' = [dstName EXCEPT ![i] = dstFile]
    /\ IF ParentDir(dstFile) \notin rdirs
       THEN /\ Log(i, "open", dstFile, "NoSuchFile", <<>>)
            /\ SFTPUploadFailed(i)
            /\ UNCHANGED <<remote, offset, faults>>
       ELSE \/ /\ CanFail
               /\ Fault
               /\ Log(i, "open", dstFile, "Transport", <<>>)
               /\ SFTPUploadFailed(i)
               /\ UNCHANGED <<remote, offset>>
            \/ /\ remote' = Put(remote, dstFile, <<>>)
               /\ offset' = [offset EXCEPT ![i] = 0]
               /\ Log(i, "open", dstFile, "ok", <<>>)
               /\ Goto(i, "copy")
               /\ UNCHANGED faults
    /\ UNCHANGED <<arg, ret, fn, boot, bucket, events, rdirs, objectName, data, extIdx,
                   held, after, uploads>>

\* uploadFileToSFTP: io.Copy writes the next chunk, or has none left and the
\* function returns nil
SFTPCopy(i) ==
    /\ fn \in {"ExportSFTP", "ExportSFTPPlain"}
    /\ pc[i] = "copy"
    /\ IF offset[i] = Len(data[i])
       THEN /\ Return(i, "nil")
            /\ UNCHANGED <<remote, offset, ops, faults>>
       ELSE \/ /\ CanFail
               /\ Fault
               /\ Log(i, "chunk", dstName[i], "Transport", <<>>)
               /\ SFTPUploadFailed(i)
               /\ UNCHANGED <<remote, offset>>
            \/ /\ remote' = Put(remote, dstName[i],
                                WriteAt(remote[dstName[i]], offset[i], data[i][offset[i] + 1]))
               /\ offset' = [offset EXCEPT ![i] = @ + 1]
               /\ Log(i, "chunk", dstName[i], "ok", <<data[i][offset[i] + 1]>>)
               /\ Goto(i, "copy")
               /\ UNCHANGED faults
    /\ UNCHANGED <<arg, ret, fn, boot, bucket, events, rdirs, objectName, dstName, data,
                   extIdx, held, after, uploads>>

\* newSMBClient and exportFiles' panic(err): stage is how far it got before an
\* error ("ok": no error); what was opened before the error stays open
newSMBClient(i, stage) ==
    /\ fn = "ExportNAS"
    /\ pc[i] = "connect"
    /\ IF stage = "ok"
       THEN /\ held' = [held EXCEPT ![i] = {"conn", "session", "share"}]
            /\ Log(i, "connect", <<>>, "ok", <<>>)
            /\ Goto(i, "stat")
            /\ UNCHANGED faults
       ELSE /\ CanFail
            /\ Fault
            /\ held' = [held EXCEPT ![i] =
                          IF stage = "net.Dial" THEN {}
                          ELSE IF stage = "Dialer.Dial" THEN {"conn"}
                          ELSE {"conn", "session"}]
            /\ Log(i, "connect", <<>>, stage, <<>>)
            /\ Return(i, "panic")
    /\ UNCHANGED <<arg, ret, fn, boot, bucket, events, remote, rdirs, objectName, dstName,
                   data, extIdx, offset, after, uploads>>

\* upload returns err to exportFiles, whose deferred nasClient.close() runs
NASUploadFailed(i) ==
    /\ held' = [held EXCEPT ![i] = {}]
    /\ Return(i, "error")

\* SMBClient.upload up to the test of c.share.Stat(folder)
NASStat(i) ==
    LET folder == PathDir(objectName[i]) IN
    /\ fn = "ExportNAS"
    /\ pc[i] = "stat"
    /\ dstName' = [dstName EXCEPT ![i] = objectName[i]]
    /\ \/ /\ folder \in rdirs
          /\ Log(i, "stat", folder, "ok", <<>>)
          /\ Goto(i, "create")
          /\ UNCHANGED faults
       \/ /\ folder \notin rdirs
          /\ Log(i, "stat", folder, "NotFound", <<>>)
          /\ Goto(i, "mkdir")
          /\ UNCHANGED faults
       \/ /\ CanFail
          /\ Fault
          /\ Log(i, "stat", folder, "Transport", <<>>)
          /\ Goto(i, "mkdir")
    /\ UNCHANGED <<arg, ret, fn, boot, bucket, events, remote, rdirs, objectName, data,
                   extIdx, offset, held, after, uploads>>

\* SMBClient.upload: c.share.MkdirAll(folder, 0755)
NASMkdirAll(i) ==
    LET folder == PathDir(objectName[i]) IN
    /\ fn = "ExportNAS"
    /\ pc[i] = "mkdir"
    /\ \/ /\ CanFail
          /\ Fault
          /\ Log(i, "mkdir", folder, "Transport", <<>>)
          /\ NASUploadFailed(i)
          /\ UNCHANGED rdirs
       \/ /\ rdirs' = rdirs \cup DirAndAncestors(folder)
          /\ Log(i, "mkdir", folder, "ok", <<>>)
          /\ Goto(i, "create")
          /\ UNCHANGED <<held, faults>>
    /\ UNCHANGED <<arg, ret, fn, boot, bucket, events, remote, objectName, dstName, data,
                   extIdx, offset, after, uploads>>

\* SMBClient.upload: c.share.Create(filename)
NASCreate(i) ==
    /\ fn = "ExportNAS"
    /\ pc[i] = "create"
    /\ \/ /\ CanFail
          /\ Fault
          /\ Log(i, "create", dstName[i], "Transport", <<>>)
          /\ NASUploadFailed(i)
          /\ UNCHANGED <<remote, offset>>
       \/ /\ remote' = Put(remote, dstName[i], <<>>)
          /\ offset' = [offset EXCEPT ![i] = 0]
          /\ Log(i, "create", dstName[i], "ok", <<>>)
          /\ Goto(i, "copy")
          /\ UNCHANGED <<held, faults>>
    /\ UNCHANGED <<arg, ret, fn, boot, bucket, events, rdirs, objectName, dstName, data,
                   extIdx, after, uploads>>

\* SMBClient.upload: io.Copy writes the next chunk, or has none left: upload
\* returns nil and the deferred nasClient.close() runs
NASCopy(i) ==
    /\ fn = "ExportNAS"
    /\ pc[i] = "copy"
    /\ IF offset[i] = Len(data[i])
       THEN /\ held' = [held EXCEPT ![i] = {}]
            /\ Return(i, "nil")
            /\ UNCHANGED <<remote, offset, ops, faults>>
       ELSE \/ /\ CanFail
               /\ Fault
               /\ Log(i, "chunk", dstName[i], "Transport", <<>>)
               /\ NASUploadFailed(i)
               /\ UNCHANGED <<remote, offset>>
            \/ /\ remote' = Put(remote, dstName[i],
                                WriteAt(remote[dstName[i]], offset[i], data[i][offset[i] + 1]))
               /\ offset' = [offset EXCEPT ![i] = @ + 1]
               /\ Log(i, "chunk", dstName[i], "ok", <<data[i][offset[i] + 1]>>)
               /\ Goto(i, "copy")
               /\ UNCHANGED <<held, faults>>
    /\ UNCHANGED <<arg, ret, fn, boot, bucket, events, rdirs, objectName, dstName, data,
                   extIdx, after, uploads>>

\* the package-level sftpClient, made once by init and used by every call of
\* uploadFileToSFTP; nothing closes it
sftpClient == <<"sftpClient", 0>>

\* the client whose methods invocation i calls: the package's sftpClient, or
\* the nasClient its own call of newSMBClient returned
ClientUsed(i) ==
    IF fn = "ExportNAS" THEN <<"nasClient", i>> ELSE sftpClient

\* the clients that are open: sftpClient from init on, a nasClient from
\* newSMBClient to nasClient.close()
OpenClients ==
    IF fn = "ExportNAS"
    THEN {<<"nasClient", i>> : i \in {j \in Inv : held[j] = {"conn", "session", "share"}}}
    ELSE {sftpClient}

(***************************************************************************)
(* RenameFile                                                              *)
(***************************************************************************)
\* trimPrefix up to the copy: the event, the prefix test, storage.NewClient,
\* the names
trimPrefix(i, n) ==
    /\ fn = "RenameFile"
    /\ Unmarshal(i, n)
    /\ IF ~HasPrefix(n, Prefix0000)
       THEN /\ Return(i, "nil")
            /\ UNCHANGED <<dstName, ops, faults>>
       ELSE \/ /\ CanFail
               /\ Fault
               /\ Log(i, "newclient", <<>>, "Transport", <<>>)
               /\ Return(i, "error")
               /\ UNCHANGED dstName
            \/ /\ dstName' = [dstName EXCEPT ![i] = TrimPrefix(n, Prefix0000)]
               /\ Goto(i, "rcopy")
               /\ UNCHANGED <<ops, faults>>
    /\ UNCHANGED <<arg, ret, fn, boot, bucket, events, remote, rdirs, data, extIdx, offset,
                   held, uploads>>

\* a copy without the precondition on the destination
CopyErrorsUnconditional(src, dst) ==
    IF src \notin DOMAIN bucket THEN {"NotFound"} ELSE {}

\* the errors dst.CopierFrom(src).Run can give under Conditions{DoesNotExist: true}
CopyErrors(src, dst) ==
    (IF src \notin DOMAIN bucket THEN {"NotFound"} ELSE {})
    \cup (IF dst \in DOMAIN bucket THEN {"PreconditionFailed"} ELSE {})

\* trimPrefix: dst.CopierFrom(src).Run(bgctx)
trimPrefixCopy(i) ==
    LET src == objectName[i]
        dst == dstName[i] IN
    /\ fn = "RenameFile"
    /\ pc[i] = "rcopy"
    /\ \/ /\ \E e \in CopyErrors(src, dst) : Log(i, "copy", dst, e, <<>>)
          /\ Return(i, "error")
          /\ UNCHANGED <<bucket, events, faults>>
       \/ /\ CopyErrors(src, dst) = {}
          /\ CanFail
          /\ Fault
          /\ Log(i, "copy", dst, "Transport", <<>>)
          /\ Return(i, "error")
          /\ UNCHANGED <<bucket, events>>
       \/ /\ CopyErrors(src, dst) = {}
          /\ bucket' = Put(bucket, dst, bucket[src])
          /\ events' = events \cup {dst}
          /\ Log(i, "copy", dst, "ok", bucket[src])
          /\ Goto(i, "rdelete")
          /\ UNCHANGED faults
    /\ UNCHANGED <<arg, ret, fn, boot, remote, rdirs, objectName, dstName, data, extIdx,
                   offset, held, after, uploads>>

\* trimPrefix: src.Delete(bgctx) and the return
trimPrefixDelete(i) ==
    LET src == objectName[i] IN
    /\ fn = "RenameFile"
    /\ pc[i] = "rdelete"
    /\ IF src \notin DOMAIN bucket
       THEN /\ Log(i, "delete", src, "NotFound", <<>>)
            /\ Return(i, "error")
            /\ UNCHANGED <<bucket, faults>>
       ELSE \/ /\ CanFail
               /\ Fault
               /\ Log(i, "delete", src, "Transport", <<>>)
               /\ Return(i, "error")
               /\ UNCHANGED bucket
            \/ /\ bucket' = Drop(bucket, src)
               /\ Log(i, "delete", src, "ok", <<>>)
               /\ Return(i, "nil")
               /\ UNCHANGED faults
    /\ UNCHANGED <<arg, ret, fn, boot, events, remote, rdirs, objectName, dstName, data,
                   extIdx, offset, held, after, uploads>>

(***************************************************************************)
(* ProcessFile                                                             *)
(***************************************************************************)
\* processFile's loop over extensions for the object name, from index first on,
\* up to the next call of saveObject, or to the return when no extension is left
processFileLoop(i, name, first) ==
    LET todo == {k \in first..Len(extensions) : Eligible(name, extensions[k])} IN
    IF todo = {}
    THEN /\ Return(i, "nil")
         /\ UNCHANGED <<dstName, extIdx>>
    ELSE LET k == CHOOSE k \in todo : \A l \in todo : k <= l IN
         /\ extIdx' = [extIdx EXCEPT ![i] = k]
         /\ dstName' = [dstName EXCEPT ![i] = setDestFileName(name, extensions[k])]
         /\ Goto(i, "read")

\* processFile up to its first call of saveObject: the event and the loop
processFile(i, n) ==
    /\ fn = "ProcessFile"
    /\ Unmarshal(i, n)
    /\ processFileLoop(i, n, 1)
    /\ UNCHANGED <<arg, ret, fn, boot, bucket, events, remote, rdirs, data, offset, held,
                   ops, faults, uploads>>

\* saveObject returns (its error is dropped) and the loop goes on
saveObjectReturns(i) == processFileLoop(i, objectName[i], extIdx[i] + 1)

\* saveObject: content, _ := replaceQuotes(bucketName, srcObjectName)
saveObjectRead(i) ==
    LET src == objectName[i] IN
    /\ fn = "ProcessFile"
    /\ pc[i] = "read"
    /\ IF src \notin DOMAIN bucket
       THEN /\ data' = [data EXCEPT ![i] = <<>>]
            /\ Log(i, "read", src, "NotFound", <<>>)
            /\ UNCHANGED faults
       ELSE \/ /\ CanFail
               /\ Fault
               /\ data' = [data EXCEPT ![i] = <<>>]
               /\ Log(i, "read", src, "Transport", <<>>)
            \/ /\ data' = [data EXCEPT ![i] = replaceQuotes(bucket[src])]
               /\ Log(i, "read", src, "ok", bucket[src])
               /\ UNCHANGED faults
    /\ Goto(i, "write")
    /\ UNCHANGED <<arg, ret, fn, boot, bucket, events, remote, rdirs, objectName, dstName,
                   extIdx, offset, held, after, uploads>>

saveObjectWriteUnchecked(i) ==
    /\ fn = "ProcessFile"
    /\ pc[i] = "write"
    /\ \/ /\ CanFail
          /\ Fault
          /\ Log(i, "write", dstName[i], "Transport", <<>>)
          /\ UNCHANGED <<bucket, events>>
       \/ /\ bucket' = Put(bucket, dstName[i], data[i])
          /\ events' = events \cup {dstName[i]}
          /\ Log(i, "write", dstName[i], "ok", data[i])
          /\ UNCHANGED faults
    /\ Goto(i, "delete")
    /\ UNCHANGED <<arg, ret, fn, boot, remote, rdirs, objectName, dstName, data, extIdx,
                   offset, held, after, uploads>>

\* saveObject: the storage.Writer, io.Copy and wc.Close
saveObjectWrite(i) ==
    /\ fn = "ProcessFile"
    /\ pc[i] = "write"
    /\ \/ /\ CanFail
          /\ Fault
          /\ Log(i, "write", dstName[i], "Transport", <<>>)
          /\ saveObjectReturns(i)
          /\ UNCHANGED <<bucket, events>>
       \/ /\ bucket' = Put(bucket, dstName[i], data[i])
          /\ events' = events \cup {dstName[i]}
          /\ Log(i, "write", dstName[i], "ok", data[i])
          /\ Goto(i, "delete")
          /\ UNCHANGED <<dstName, extIdx, faults>>
    /\ UNCHANGED <<arg, ret, fn, boot, remote, rdirs, objectName, data, offset, held,
                   after, uploads>>

\* saveObject: src.Delete(bgctx) and the return
saveObjectDelete(i) ==
    LET src == objectName[i] IN
    /\ fn = "ProcessFile"
    /\ pc[i] = "delete"
    /\ IF src \notin DOMAIN bucket
       THEN /\ Log(i, "delete", src, "NotFound", <<>>)
            /\ UNCHANGED <<bucket, faults>>
       ELSE \/ /\ CanFail
               /\ Fault
               /\ Log(i, "delete", src, "Transport", <<>>)
               /\ UNCHANGED bucket
            \/ /\ bucket' = Drop(bucket, src)
               /\ Log(i, "delete", src, "ok", <<>>)
               /\ UNCHANGED faults
    /\ saveObjectReturns(i)
    /\ UNCHANGED <<arg, ret, fn, boot, events, remote, rdirs, objectName, data, offset,
                   held, after, uploads>>

Next ==
    \/ \E resp \in InitResponses, ok \in BOOLEAN : init(resp, ok)
    \/ \E n \in SourceNames(fn) : \E c \in Contents(fn, n) : Upload(n, c)
    \/ \E i \in Inv : RejectEvent(i)
    \/ \E i \in Inv, n \in events : exportFiles(i, n)
    \/ \E i \in Inv : Download(i)
    \/ \E i \in Inv : SFTPOpenFile(i)
    \/ \E i \in Inv : SFTPCopy(i)
    \/ \E i \in Inv, stage \in {"ok", "net.Dial", "Dialer.Dial", "Mount"} : newSMBClient(i, stage)
    \/ \E i \in Inv : NASStat(i)
    \/ \E i \in Inv : NASMkdirAll(i)
    \/ \E i \in Inv : NASCreate(i)
    \/ \E i \in Inv : NASCopy(i)
    \/ \E i \in Inv, n \in events : trimPrefix(i, n)
    \/ \E i \in Inv : trimPrefixCopy(i)
    \/ \E i \in Inv : trimPrefixDelete(i)
    \/ \E i \in Inv, n \in events : processFile(i, n)
    \/ \E i \in Inv : saveObjectRead(i)
    \/ \E i \in Inv : saveObjectWrite(i)
    \/ \E i \in Inv : saveObjectDelete(i)

Spec == Init /\ [][Next]_vars

\* the two functions that rewrite an object within the bucket, on their own
InitSameStore == Init /\ fn \in SameStore

NextSameStore ==
    \/ \E resp \in InitResponses, ok \in BOOLEAN : init(resp, ok)
    \/ \E n \in SourceNames(fn) : \E c \in Contents(fn, n) : Upload(n, c)
    \/ \E i \in Inv : RejectEvent(i)
    \/ \E i \in Inv, n \in events : trimPrefix(i, n)
    \/ \E i \in Inv : trimPrefixCopy(i)
    \/ \E i \in Inv : trimPrefixDelete(i)
    \/ \E i \in Inv, n \in events : processFile(i, n)
    \/ \E i \in Inv : saveObjectRead(i)
    \/ \E i \in Inv : saveObjectWrite(i)
    \/ \E i \in Inv : saveObjectDelete(i)

SpecSameStore == InitSameStore /\ [][NextSameStore]_vars

(***************************************************************************)
(* Claims about the handlers                                               *)
(***************************************************************************)
Failures == {"NotFound", "PreconditionFailed", "Transport", "NoSuchFile",
             "net.Dial", "Dialer.Dial", "Mount"}

HasOp(i, kinds, errs) ==
    \E k \in DOMAIN ops[i] : ops[i][k].op \in kinds /\ ops[i][k].err \in errs

AllOk(i) == \A k \in DOMAIN ops[i] : ops[i][k].err = "ok"

WriteOps == {"copy", "write"}

\* the step appends one call to invocation i's log
Logs(i, op, name, err) ==
    /\ Len(ops'[i]) = Len(ops[i]) + 1
    /\ ops'[i][Len(ops'[i])].op = op
    /\ ops'[i][Len(ops'[i])].name = name
    /\ ops'[i][Len(ops'[i])].err = err

C1_DeleteFollowsWrite ==
    fn \in SameStore =>
        \A i \in Inv :
            /\ \A k \in DOMAIN ops[i] :
                  ops[i][k].op = "delete" =>
                      /\ k > 1
                      /\ ops[i][k - 1].op \in WriteOps
                      /\ ops[i][k - 1].err = "ok"
            /\ HasOp(i, WriteOps, Failures) => ~HasOp(i, {"delete"}, Failures \cup {"ok"})
            /\ ( /\ pc[i] = "done"
                 /\ \/ HasOp(i, {"copy"}, {"Transport"})
                    \/ HasOp(i, {"write"}, {"Transport"}) /\ HasOp(i, {"read"}, {"ok", "Transport"})
                 /\ \A j \in Inv : \A k \in DOMAIN ops[j] :
                       ~(ops[j][k].op = "delete" /\ ops[j][k].name = objectName[i]
                         /\ ops[j][k].err = "ok") )
               => objectName[i] \in DOMAIN bucket

C1_OnlyDeleteRemoves ==
    fn \in SameStore =>
        /\ \A n \in DOMAIN bucket :
              n \notin DOMAIN bucket' =>
                  \E i \in Inv : objectName[i] = n /\ pc[i] \in {"rdelete", "delete"}
                                 /\ Logs(i, "delete", n, "ok")
        /\ \A i \in Inv :
              (\E e \in Failures, d \in {dstName[i]} :
                    Logs(i, "copy", d, e) \/ Logs(i, "write", d, e))
                  => bucket' = bucket

\* C1: in the same-store functions (trimPrefix, processFile/saveObject) an
\* invocation attempts the delete of its source only directly after its own
\* copy or write succeeded; an invocation whose copy or write failed makes no
\* delete, the failing step changes no object, an object leaves the bucket only
\* by such a delete, and so the source it saw is still there when it ends
\* (unless another invocation deleted it).
C1_WriteBeforeDelete == [](C1_DeleteFollowsWrite) /\ [][C1_OnlyDeleteRemoves]_vars

\* a saveObject whose write failed has ended and its source is in the bucket
C1_Witness ==
    /\ fn = "ProcessFile"
    /\ \E i \in Inv :
          /\ pc[i] = "done"
          /\ HasOp(i, {"read"}, {"ok"})
          /\ HasOp(i, {"write"}, {"Transport"})
          /\ objectName[i] \in DOMAIN bucket

Succeeded(i) ==
    /\ pc[i] = "done"
    /\ result[i] = "nil"
    /\ AllOk(i)
    /\ HasOp(i, {"delete"}, {"ok"})

\* C2: two concurrent same-store rewrites that target the same destination name
\* (a name the outside world never put an object under), with no transport
\* failure: exactly one succeeds, the other's copy or write is refused
\* (PreconditionFailed, or NotFound when the winner had already removed the
\* common source) and it has attempted no delete of its source.
C2_PreconditionRace ==
    \A i, j \in Inv :
        ( /\ fn \in SameStore
          /\ i # j
          /\ faults = 0
          /\ pc[i] = "done" /\ pc[j] = "done"
          /\ j \notin after[i] /\ i \notin after[j]
          /\ HasOp(i, WriteOps, Failures \cup {"ok"})
          /\ HasOp(j, WriteOps, Failures \cup {"ok"})
          /\ dstName[i] = dstName[j]
          /\ dstName[i] \notin uploads.names )
        => \E w \in {i, j} : \E l \in {i, j} \ {w} :
              /\ Succeeded(w)
              /\ ~Succeeded(l)
              /\ HasOp(l, WriteOps, {"PreconditionFailed", "NotFound"})
              /\ ~HasOp(l, {"delete"}, Failures \cup {"ok"})

\* C3: in the exports and in processFile, an invocation whose read of the source
\* failed has, when it ends, returned an error and made no other call (no
\* destination write, no source delete).
C3_FetchFailureFails ==
    \A i \in Inv :
        ( /\ fn \in Exports \cup {"ProcessFile"}
          /\ pc[i] = "done"
          /\ HasOp(i, {"read"}, Failures) )
        => /\ result[i] = "error"
           /\ Len(ops[i]) = 1

\* what invocation j wrote to its destination
WrittenBy(j) ==
    IF fn \in Exports THEN data[j]
    ELSE LET k == CHOOSE k \in DOMAIN ops[j] : ops[j][k].op \in WriteOps
         IN  ops[j][k].val

DestinationHolds(j) ==
    LET store == IF fn \in Exports THEN remote ELSE bucket
    IN  /\ dstName[j] \in DOMAIN store
        /\ store[dstName[j]] = WrittenBy(j)

FirstRunSucceeded(j) ==
    /\ pc[j] = "done"
    /\ result[j] = "nil"
    /\ AllOk(j)
    /\ HasOp(j, WriteOps \cup {"open", "create"}, {"ok"})

\* C4: the handler runs a second time for the same event after the first run
\* succeeded (one upload, no transport failure): when the second run has ended
\* it has not panicked and the destination holds exactly what the first run wrote.
C4_IdempotentRedelivery ==
    \A i, j \in Inv :
        ( /\ i # j
          /\ faults = 0
          /\ uploads.n = 1
          /\ j \in after[i]
          /\ objectName[j] # <<>>
          /\ objectName[i] = objectName[j]
          /\ FirstRunSucceeded(j)
          /\ pc[i] = "done" )
        => /\ result[i] # "panic"
           /\ DestinationHolds(j)

WriteStageOps == {"connect", "mkdir", "open", "create", "chunk", "write", "copy"}

\* C5: an invocation in which connect, directory creation, file open/create or
\* a payload write failed returns an error (neither nil nor a panic), and no
\* call other than a chunk write is made twice.
C5_WriteFailuresPropagated ==
    \A i \in Inv :
        /\ (pc[i] = "done" /\ HasOp(i, WriteStageOps, Failures)) => result[i] = "error"
        /\ \A k, l \in DOMAIN ops[i] :
              (k < l /\ ops[i][k].op = ops[i][l].op) => ops[i][k].op = "chunk"

Ineligible(n) ==
    \/ \A k \in DOMAIN n : n[k] # "|"
    \/ ~(HasSuffix(n, <<".", "c", "s", "v">>) \/ HasSuffix(n, <<".", "t", "x", "t">>))

\* C6: in processFile, an invocation for an object name without '|' or without
\* the extension .csv or .txt makes no call to the object store (no read, no
\* write, no delete) and returns nil.
C6_IneligibleIsPure ==
    fn = "ProcessFile" =>
        \A i \in Inv :
            (objectName[i] # <<>> /\ Ineligible(objectName[i]))
            => /\ ops[i] = <<>>
               /\ pc[i] = "done"
               /\ result[i] = "nil"

\* a name with '|' and the wrong extension, and one with the extension and no '|'
C6_Witness ==
    /\ fn = "ProcessFile"
    /\ \E i, j \in Inv :
          /\ pc[i] = "done" /\ pc[j] = "done"
          /\ objectName[i] = <<"a", "|", "1", ".", "d", "a", "t">>
          /\ objectName[j] = <<"a", ".", "c", "s", "v">>
          /\ objectName[i] \in DOMAIN bucket
          /\ objectName[j] \in DOMAIN bucket
          /\ result[i] = "nil" /\ result[j] = "nil"

C7_Log ==
    fn = "RenameFile" =>
        \A i \in Inv :
            (pc[i] = "done" /\ result[i] = "nil" /\ objectName[i] # <<>>)
            => IF HasPrefix(objectName[i], <<"0", "0", "0", "0">>)
               THEN /\ Len(ops[i]) = 2
                    /\ ops[i][1].op = "copy" /\ ops[i][1].err = "ok"
                    /\ <<"0", "0", "0", "0">> \o ops[i][1].name = objectName[i]
                    /\ ops[i][2] = Op("delete", objectName[i], "ok", <<>>)
               ELSE ops[i] = <<>>

C7_Steps ==
    fn = "RenameFile" =>
        \A i \in Inv :
            /\ (pc[i] = "rcopy" /\ pc'[i] = "rdelete")
               => \E d \in DOMAIN bucket' :
                     /\ <<"0", "0", "0", "0">> \o d = objectName[i]
                     /\ bucket'[d] = bucket[objectName[i]]
                     /\ objectName[i] \in DOMAIN bucket'
                     /\ \A n \in DOMAIN bucket : n \in DOMAIN bucket' /\ bucket'[n] = bucket[n]
            /\ (pc[i] = "rdelete" /\ pc'[i] = "done" /\ result'[i] = "nil")
               => /\ objectName[i] \notin DOMAIN bucket'
                  /\ DOMAIN bucket' = DOMAIN bucket \ {objectName[i]}
                  /\ \A n \in DOMAIN bucket' : bucket'[n] = bucket[n]
            /\ (pc[i] = "idle" /\ pc'[i] = "done" /\ result'[i] = "nil")
               => /\ ~HasPrefix(objectName'[i], <<"0", "0", "0", "0">>)
                  /\ bucket' = bucket

\* C7: trimPrefix with prefix '0000'. For a name that starts with the prefix, an
\* invocation that returns nil has made exactly a copy to the name with one
\* leading prefix removed and then a delete of the source: the copy step puts
\* the source's content at that name and changes nothing else, the delete step
\* removes the source name and nothing else. For a name that does not start
\* with the prefix the invocation returns nil having made no copy and no delete.
C7_PrefixTrim == [](C7_Log) /\ [][C7_Steps]_vars

\* a doubly prefixed name has been moved to the singly prefixed one, and an
\* unprefixed name has been skipped
C7_Witness ==
    /\ fn = "RenameFile"
    /\ \E i, j \in Inv :
          /\ pc[i] = "done" /\ result[i] = "nil"
          /\ objectName[i] = <<"0", "0", "0", "0", "0", "0", "0", "0", "a">>
          /\ objectName[i] \notin DOMAIN bucket
          /\ <<"0", "0", "0", "0", "a">> \in DOMAIN bucket
          /\ bucket[<<"0", "0", "0", "0", "a">>] = ops[i][1].val
          /\ pc[j] = "done" /\ result[j] = "nil"
          /\ objectName[j] = <<"a">>
          /\ <<"a">> \in DOMAIN bucket

\* C11: in ExportFiles over SMB, when an invocation has ended (nil, error or
\* panic) it holds none of the TCP connection, the SMB session and the share
\* mount it acquired.
C11_SessionReleased ==
    fn = "ExportNAS" => \A i \in Inv : pc[i] = "done" => held[i] = {}

\* C12: in every function, an invocation that found its source object gone when
\* it fetched it (the read, or the copy of trimPrefix, gave NotFound) has, when
\* it ends, made no other call (no write, no delete) and returned nil.
C12_NotFoundIsNoOp ==
    \A i \in Inv :
        (pc[i] = "done" /\ HasOp(i, {"read", "copy"}, {"NotFound"}))
        => /\ result[i] = "nil"
           /\ Len(ops[i]) = 1

C13_Log ==
    fn = "RenameFile" =>
        \A i \in Inv :
            HasOp(i, {"copy"}, {"PreconditionFailed"})
            => /\ pc[i] = "done"
               /\ result[i] = "error"
               /\ Len(ops[i]) = 1

C13_Steps ==
    fn = "RenameFile" =>
        \A i \in Inv :
            (pc[i] = "rcopy" /\ pc'[i] # "rcopy" /\ dstName[i] \in DOMAIN bucket)
            => /\ pc'[i] = "done"
               /\ result'[i] = "error"
               /\ bucket' = bucket
               /\ \E e \in {"PreconditionFailed", "NotFound"} : Logs(i, "copy", dstName[i], e)

\* C13: trimPrefix, when an object exists at the destination name at the moment
\* of the copy: the copy is refused, the invocation returns an error, no object
\* of the bucket changes (the destination keeps its content, the source stays)
\* and the invocation makes no delete.
C13_FailClosed == [](C13_Log) /\ [][C13_Steps]_vars

\* a refused copy has ended; destination and source are both as uploaded
C13_Witness ==
    /\ fn = "RenameFile"
    /\ \E i \in Inv :
          /\ pc[i] = "done"
          /\ result[i] = "error"
          /\ HasOp(i, {"copy"}, {"PreconditionFailed"})
          /\ dstName[i] \in DOMAIN bucket
          /\ bucket[dstName[i]] = dstName[i]
          /\ objectName[i] \in DOMAIN bucket
          /\ bucket[objectName[i]] = objectName[i]

\* some invocation's delete of object n succeeded
DeletedBySomeone(n) ==
    \E j \in Inv : \E k \in DOMAIN ops[j] :
        ops[j][k].op = "delete" /\ ops[j][k].name = n /\ ops[j][k].err = "ok"

\* C14: in the same-store functions, an invocation whose copy or write succeeded
\* and whose delete of the source then failed in transport has, when it ends,
\* returned an error, and the destination and the source are both in the bucket
\* (unless an invocation's successful delete has removed one of them since).
C14_DeleteFailureDuplicates ==
    \A i \in Inv :
        ( /\ fn \in SameStore
          /\ pc[i] = "done"
          /\ HasOp(i, WriteOps, {"ok"})
          /\ HasOp(i, {"delete"}, {"Transport"}) )
        => /\ result[i] = "error"
           /\ ~DeletedBySomeone(dstName[i]) => dstName[i] \in DOMAIN bucket
           /\ ~DeletedBySomeone(objectName[i]) => objectName[i] \in DOMAIN bucket

\* the directory the remote file of invocation i is created in
RemoteDir(i) ==
    IF fn = "ExportNAS" THEN PathDir(objectName[i]) ELSE ParentDir(dstName[i])

\* C15: in the exports (SMB upload and uploadFileToSFTP), once an invocation has
\* attempted to create or open its remote file, the file's directory and all of
\* its ancestors exist on the remote side, and the attempt has not failed for a
\* missing directory.
C15_DirectoryEnsured ==
    \A i \in Inv :
        (fn \in Exports /\ HasOp(i, {"open", "create"}, Failures \cup {"ok"}))
        => /\ DirAndAncestors(RemoteDir(i)) \subseteq rdirs
           /\ ~HasOp(i, {"open", "create"}, {"NoSuchFile"})

\* the calls an invocation makes on its transport client
RemoteOps == {"connect", "stat", "mkdir", "create", "open", "chunk"}

\* C16: in the exports, two invocations that have called the remote side have
\* used different clients, and an invocation that has ended has closed the
\* client it used.
C16_SessionNotShared ==
    fn \in Exports =>
        /\ \A i, j \in Inv :
              ( /\ i # j
                /\ HasOp(i, RemoteOps, Failures \cup {"ok"})
                /\ HasOp(j, RemoteOps, Failures \cup {"ok"}) )
              => ClientUsed(i) # ClientUsed(j)
        /\ \A i \in Inv :
              (pc[i] = "done" /\ HasOp(i, RemoteOps, {"ok"}))
              => ClientUsed(i) \notin OpenClients

\* C17: two concurrent export invocations (SMB or SFTP) that wrote different
\* payloads to the same remote name and both completed without any failure, no
\* other invocation having written that name: the remote file holds one of the
\* two payloads in full.
C17_LastWriterWins ==
    \A i, j \in Inv :
        ( /\ fn \in Exports
          /\ i # j
          /\ pc[i] = "done" /\ pc[j] = "done"
          /\ result[i] = "nil" /\ result[j] = "nil"
          /\ AllOk(i) /\ AllOk(j)
          /\ HasOp(i, {"chunk"}, {"ok"}) /\ HasOp(j, {"chunk"}, {"ok"})
          /\ j \notin after[i] /\ i \notin after[j]
          /\ dstName[i] = dstName[j]
          /\ data[i] # data[j]
          /\ \A k \in Inv \ {i, j} : dstName[k] # dstName[i] )
        => remote[dstName[i]] \in {data[i], data[j]}

\* init() has made the call named step and it succeeded
Created(step) ==
    \E k \in 1..(boot.at - 1) : k <= Len(InitSteps(fn)) /\ InitSteps(fn)[k] = step

\* C18: in the exports over SFTP and SMB, while the handler is registered or any
\* event has been taken up, init() has accepted a secret whose checksum is the
\* CRC32C of its payload and has created the storage client (and, over SFTP, the
\* SSH connection and the SFTP client); when a step of init() has failed the
\* process has exited and no event has been taken up.
C18_StartupGated ==
    fn \in Exports =>
        /\ (boot.state = "serving" \/ \E i \in Inv : pc[i] # "idle")
           => /\ boot.resp # <<>>
              /\ boot.resp[1].status = "ok"
              /\ boot.resp[1].crc = Int64(Checksum(boot.resp[1].data))
              /\ Created("accessSecretVersion")
              /\ Created("storage.NewClient")
              /\ fn # "ExportNAS" => Created("ssh.Dial") /\ Created("sftp.NewClient")
        /\ boot.failed # None <=> boot.state = "exited"
        /\ boot.state = "exited" => \A i \in Inv : pc[i] = "idle"

\* C19: processFile alone in the bucket (one object uploaded, no other
\* invocation started): when an invocation's write and delete have both
\* succeeded, its destination name differs from its source name and the bucket
\* holds under it what the invocation wrote, the transformed content it read.
C19_WrittenObjectSurvives ==
    \A i \in Inv :
        ( /\ fn = "ProcessFile"
          /\ uploads.n = 1
          /\ \A j \in Inv \ {i} : pc[j] = "idle"
          /\ pc[i] = "done"
          /\ HasOp(i, {"read"}, {"ok"})
          /\ HasOp(i, {"write"}, {"ok"})
          /\ HasOp(i, {"delete"}, {"ok"}) )
        => /\ dstName[i] # objectName[i]
           /\ dstName[i] \in DOMAIN bucket
           /\ bucket[dstName[i]] = replaceQuotes(ops[i][1].val)

\* the names the handler writes when it takes up an event for object n
WrittenFor(n) ==
    IF fn = "RenameFile"
    THEN IF HasPrefix(n, Prefix0000) THEN {TrimPrefix(n, Prefix0000)} ELSE {}
    ELSE {setDestFileName(n, extensions[k]) :
             k \in {l \in DOMAIN extensions : Eligible(n, extensions[l])}}

\* every chain of events that starts at one of the names ns, each next event
\* raised by a write of the handler, reaches an event for which nothing is
\* written without coming back to a name of seen
RECURSIVE ChainEnds(_, _)
ChainEnds(ns, seen) ==
    \A n \in ns :
        /\ n \notin seen
        /\ ChainEnds(WrittenFor(n), seen \cup {n})

\* C20: in the same-store functions, with every written object raising an event
\* for the same handler: the events that follow from a write an invocation has
\* made lead, after finitely many further writes, to an event that is handled
\* with no write (no name comes up twice in the chain).
C20_NoSelfTrigger ==
    \A i \in Inv :
        (fn \in SameStore /\ HasOp(i, WriteOps, {"ok"}))
        => /\ dstName[i] \in events
           /\ ChainEnds({objectName[i]}, {})

(***************************************************************************)
(* Claims about the pure functions                                         *)
(***************************************************************************)
DirPortion(n) == SubSeq(n, 1, LastIndexByte(n, "/"))

LastSegment(n) == SubSeq(n, LastIndexByte(n, "/") + 1, Len(n))

DelimiterCut(name, ext) ==
    LET part == CutBefore(LastSegment(name), Pipe)
    IN  DirPortion(name) \o (IF HasSuffix(part, ext) THEN part ELSE part \o ext)

\* C8: for every eligible source name, setDestFileName returns the directory
\* portion of the name (up to and including the last '/') unchanged, followed by
\* the part of the last segment before the first '|', with the extension
\* appended only if that part does not already end with it.
C8_DelimiterCutNaming ==
    ret # <<>> => ret[1] = DelimiterCut(arg.name, arg.ext)

\* every occurrence of A in s, scanning from position k, replaced by B
RECURSIVE ScanReplace(_, _, _, _)
ScanReplace(s, k, A, B) ==
    IF k > Len(s) THEN <<>>
    ELSE IF k + Len(A) - 1 <= Len(s) /\ SubSeq(s, k, k + Len(A) - 1) = A
         THEN B \o ScanReplace(s, k + Len(A), A, B)
         ELSE <<s[k]>> \o ScanReplace(s, k + 1, A, B)

\* C9: for every payload, replaceQuotes returns the result of replacing every
\* '~~' by ',' over the whole payload first and then every quote-quote-comma-
\* quote-quote by quote-comma-quote in that intermediate result, so the second
\* rule also rewrites sequences that only the first rule created; no '~~' is left.
C9_SubstitutionOrder ==
    ret # <<>> =>
        /\ ret[1] = ScanReplace(ScanReplace(arg, 1, Tildes, Comma), 1, QQCQQ, QCQ)
        /\ ~Contains(ret[1], Tildes)

\* a payload whose quote-quote-comma-quote-quote exists only after rule 1 ran
C9_Witness ==
    /\ arg = <<Quote, Quote, "~", "~", Quote, Quote>>
    /\ ret = <<QCQ>>

\* C10: accessSecretVersion returns the secret only when the CRC32C recomputed
\* over the payload equals the accompanying checksum as an int64; on a mismatch
\* it returns an error and the empty string; whenever it does not return nil as
\* the error, the string it returns is empty. (The checksum is CRC-32C: of the
\* empty string 0, of one zero byte 0x527d5351, of the bytes 0x73 0xff 0xd7a2589d.)
C10_ChecksumVerified ==
    ret # <<>> =>
        /\ Checksum(<<>>) = <<0, 0>>
        /\ Checksum(<<0>>) = <<21117, 21329>>
        /\ Checksum(<<115, 255>>) = <<55202, 22685>>
        /\ ret[1].err = "nil" =>
              /\ arg.status = "ok"
              /\ arg.crc = <<0, Checksum(arg.data)[1], Checksum(arg.data)[2]>>
              /\ ret[1].secret = arg.data
        /\ (arg.status = "ok" /\ arg.crc # NilCrc
              /\ arg.crc # <<0, Checksum(arg.data)[1], Checksum(arg.data)[2]>>) =>
              ret[1] = [secret |-> <<>>, err |-> "data corruption detected"]
        /\ ret[1].err # "nil" => ret[1].secret = <<>>

\* a non-empty payload whose checksum differs only above the 32nd bit is refused
C10_Witness ==
    /\ ret # <<>>
    /\ arg.status = "ok"
    /\ arg.data # <<>>
    /\ arg.crc = <<1, Checksum(arg.data)[1], Checksum(arg.data)[2]>>
    /\ ret[1].err = "data corruption detected"

====
